---------------------------- MODULE Spec2Model ----------------------------
(***************************************************************************)
(* A model of matcha.hpp: matcher objects (policies wrapped by Matcher),   *)
(* the combinators, the output policies and the assertion entry point      *)
(* assertResult.                                                           *)
(*                                                                         *)
(* Values.  A text (std::string) is a sequence of one-character strings;   *)
(* rendered text (what is written to a stream) is a TLA+ string.  A        *)
(* matcher is a tuple whose first element names its policy:                *)
(*   <<"equalTo", T, x>>        IsEqual<T>(x)                              *)
(*   <<"startsWith", s>>  <<"endsWith", s>>  <<"matchesPattern", p>>       *)
(*   <<"is", M>>  <<"not", M>>  <<"anyOf", A, B>>  <<"allOf", A, B>>       *)
(*   <<"everyItem", M>>         IsContaining<Matcher<..>>(M)               *)
(*   <<"contains", x>>          IsContaining<int>(x)                       *)
(*   <<"in", C>>                IsIn<std::vector<int>>(C)                  *)
(*   <<"closeTo", v, d>>        Matcher<IsCloseTo, pair<float, float>>     *)
(* The result of a call is [exc, val]: exc = "none" and the value the call *)
(* returned, or the name of the exception that left the call.              *)
(***************************************************************************)
EXTENDS Integers, Sequences, FiniteSets, TLC

VARIABLES policy, pc, op, matcher, actual, ret, calls, viable, printCalls, out

vars == <<policy, pc, op, matcher, actual, ret, calls, viable, printCalls, out>>

(***************************************************************************)
(* Bounds of the model.                                                    *)
(***************************************************************************)
MaxInt == 1
MaxLen == 2
MaxVec == 2
MaxElem == 3
MaxCol == 3
MaxNum == 2

IntVals == 0..MaxInt
Chars == {"a", "b"}
Texts == UNION {[1..n -> Chars] : n \in 0..MaxLen}
ShortTexts == {s \in Texts : Len(s) <= 1}
IntVecs == UNION {[1..n -> IntVals] : n \in 0..MaxVec}

\* The elements and the collections contains and in are applied to.
ElemVals == 0..MaxElem
Collections == UNION {[1..n -> ElemVals] : n \in 0..MaxCol}

\* float: every integer below 2^24 in magnitude is a float; from there on
\* only every second one, then every fourth, ...
FloatExactLimit == 2 ^ 24

\* The float operands of closeTo: small ones, a negative one, and two where
\* the floats are no longer dense in the integers.
FloatVals == (-1..MaxNum) \cup {FloatExactLimit, FloatExactLimit + 2}

\* Pattern texts handed to matchesPattern: valid ones and invalid ones.
Patterns ==
    { <<>>, <<"a">>, <<"a", "b">>, <<"a", "*">>, <<"a", "*", "b">>, <<"a", "*", "*">>,
      <<"*">>, <<"[">>, <<"a", "[">>, <<"*", "a">> }

\* size_t arithmetic is modular.  The checker's integers are 32 bits wide, so
\* size_t is taken 30 bits wide here instead of 64: every text of the model
\* is far shorter than either modulus, and a difference that wraps lands
\* beyond the end of any text under both.
SizeTModulus == 2 ^ 30

(***************************************************************************)
(* Types presented to IsEqual_, with the two capabilities its overloads    *)
(* test: is_equality_comparable<T> and std::is_pod<T>.                     *)
(*   int, string : built-in / library ==                                   *)
(*   KeyedPod    : struct { char key; char tag; } with a user operator==   *)
(*                 that compares key only                                  *)
(*   PlainPod    : struct { char b1; char b2; } without operator==         *)
(*   Opaque      : a non-POD class without operator==                      *)
(***************************************************************************)
Types == {"int", "string", "KeyedPod", "PlainPod", "Opaque"}

is_equality_comparable(T) == T \in {"int", "string", "KeyedPod"}

is_pod(T) == T \in {"int", "KeyedPod", "PlainPod"}

Bytes == 0..1
PodVals == [1..2 -> Bytes]
OpaqueVals == {"o1", "o2"}

ValuesOf(T) ==
    CASE T = "int" -> IntVals
      [] T = "string" -> Texts
      [] T = "KeyedPod" -> PodVals
      [] T = "PlainPod" -> PodVals
      [] T = "Opaque" -> OpaqueVals
      [] T = "vector" -> IntVecs
      [] T = "element" -> ElemVals
      [] T = "collection" -> Collections
      [] T = "float" -> FloatVals

\* expected == actual, for the types that have it.
EqOp(T, x, y) ==
    IF T = "KeyedPod" THEN x[1] = y[1] ELSE x = y

\* std::memcmp over the object representation: <0, 0 or >0.
RECURSIVE memcmp(_, _, _)
memcmp(x, y, n) ==
    IF n = 0 THEN 0
    ELSE LET d == memcmp(x, y, n - 1)
         IN  IF d # 0 THEN d ELSE x[n] - y[n]

sizeof(x) == Len(x)

(***************************************************************************)
(* Results.                                                                *)
(***************************************************************************)
Returns(b) == [exc |-> "none", val |-> b, calls |-> <<>>]
Throws(e) == [exc |-> e, val |-> FALSE, calls |-> <<>>]


(***************************************************************************)
(* Rendering: operator<< on a stream.                                      *)
(***************************************************************************)
RECURSIVE Cat(_)
Cat(s) == IF s = <<>> THEN "" ELSE Head(s) \o Cat(Tail(s))

\* sactual << actual: an int in decimal, a text as it is, and the catch-all
\* operator<< for a type without an insertion operator.
Render(T, v) ==
    CASE T = "int" -> ToString(v)
      [] T = "string" -> Cat(v)
      [] OTHER -> "<unknown-type>"

(***************************************************************************)
(* IsEqual_: two overloads of matches, enabled by the capabilities of T.   *)
(***************************************************************************)
IsEqual_enable_eq(T) == is_equality_comparable(T)

\* Variant: the byte-wise overload enabled for every POD type, == or not.
IsEqual_enable_memcmp_NoEqTest(T) == is_pod(T)

IsEqual_enable_memcmp(T) == ~is_equality_comparable(T) /\ is_pod(T)

\* The overloads of IsEqual_::matches viable for (T const&, T const&).
IsEqual_overloads(T) ==
    (IF IsEqual_enable_eq(T) THEN {"operator=="} ELSE {})
        \cup (IF IsEqual_enable_memcmp(T) THEN {"memcmp"} ELSE {})

\* Overload resolution, then the chosen body.  No viable overload, or two
\* equally good ones, is a build error: the call never runs.
IsEqual_matches(T, expected, act) ==
    LET ov == IsEqual_overloads(T)
    IN  IF ov = {} THEN Throws("no_matching_function")
        ELSE IF Cardinality(ov) > 1 THEN Throws("ambiguous_call")
        ELSE IF "operator==" \in ov THEN Returns(EqOp(T, expected, act))
        ELSE Returns(memcmp(expected, act, sizeof(expected)) = 0)

IsEqual_describe(T, expected) ==
    IF T = "string" THEN "\"" \o Cat(expected) \o "\"" ELSE Render(T, expected)

(***************************************************************************)
(* std::string::compare(pos, len, str).                                    *)
(***************************************************************************)
CharCode(c) ==
    CASE c = "a" -> 97 [] c = "b" -> 98 [] c = "*" -> 42 [] c = "[" -> 91

Min(a, b) == IF a <= b THEN a ELSE b

\* char_traits::compare over the common length, then the lengths.
RECURSIVE traits_compare(_, _, _)
traits_compare(x, y, n) ==
    IF n = 0 THEN 0
    ELSE LET d == traits_compare(x, y, n - 1)
         IN  IF d # 0 THEN d ELSE CharCode(x[n]) - CharCode(y[n])

string_compare(self, pos, len, str) ==
    IF pos > Len(self) THEN [exc |-> "out_of_range", val |-> 0]
    ELSE LET rlen == Min(len, Len(self) - pos)
             sub == SubSeq(self, pos + 1, pos + rlen)
             d == traits_compare(sub, str, Min(rlen, Len(str)))
         IN  [exc |-> "none", val |-> IF d # 0 THEN d ELSE rlen - Len(str)]

\* Variant: compares only the characters both texts have.
StringStartsWith_matches_NoLength(substr, act) ==
    LET n == Min(Len(substr), Len(act))
    IN  Returns(SubSeq(act, 1, n) = SubSeq(substr, 1, n))

StringStartsWith_matches(substr, act) ==
    LET c == string_compare(act, 0, Len(substr), substr)
    IN  IF c.exc # "none" THEN Throws(c.exc) ELSE Returns(c.val = 0)

StringStartsWith_describe(expected) == "starts with \"" \o Cat(expected) \o "\""

\* actual.size() - substr.size() is computed in size_t.
StringEndsWith_matches(substr, act) ==
    LET pos == (Len(act) - Len(substr)) % SizeTModulus
        c == string_compare(act, pos, Len(substr), substr)
    IN  IF c.exc # "none" THEN Throws(c.exc) ELSE Returns(c.val = 0)

StringEndsWith_describe(expected) == "ends with \"" \o Cat(expected) \o "\""

(***************************************************************************)
(* std::regex(reg) and std::regex_match, for patterns made of literal      *)
(* characters, the postfix star and the opening bracket.                   *)
(***************************************************************************)
\* std::regex's constructor accepts the pattern: no bracket expression is
\* left open and the star has something to repeat.
regex_valid(reg) ==
    /\ \A i \in 1..Len(reg) : reg[i] # "["
    /\ reg # <<>> => reg[1] # "*"

\* The atoms of a valid pattern: a character, possibly starred.
RECURSIVE regex_atoms(_)
regex_atoms(reg) ==
    IF reg = <<>> THEN <<>>
    ELSE IF Len(reg) >= 2 /\ reg[2] = "*"
         THEN LET rest == regex_atoms(Tail(Tail(reg)))
              IN  IF reg[1] = "*" THEN rest
                  ELSE <<[c |-> reg[1], star |-> TRUE]>> \o rest
         ELSE IF reg[1] = "*" THEN regex_atoms(Tail(reg))
              ELSE <<[c |-> reg[1], star |-> FALSE]>> \o regex_atoms(Tail(reg))

\* Full match of s against the atoms.
RECURSIVE atoms_match(_, _)
atoms_match(atoms, s) ==
    IF atoms = <<>> THEN s = <<>>
    ELSE LET at == Head(atoms)
         IN  IF at.star
             THEN \/ atoms_match(Tail(atoms), s)
                  \/ s # <<>> /\ Head(s) = at.c /\ atoms_match(atoms, Tail(s))
             ELSE s # <<>> /\ Head(s) = at.c /\ atoms_match(Tail(atoms), Tail(s))

regex_match(s, reg) == atoms_match(regex_atoms(reg), s)

\* Variant: an invalid pattern caught and reported as a non-match.
MatchesPattern_matches_Swallow(reg, act) ==
    IF ~regex_valid(reg) THEN Returns(FALSE) ELSE Returns(regex_match(act, reg))

\* std::regex(reg) is built inside matches, at every call.
MatchesPattern_matches(reg, act) ==
    IF ~regex_valid(reg) THEN Throws("regex_error")
    ELSE Returns(regex_match(act, reg))

MatchesPattern_describe(expected) == "a string matching the pattern " \o Cat(expected)

\* The factory only stores the text: MatchesPattern(reg_exp).
matchesPattern(reg_exp) == <<"matchesPattern", reg_exp>>

(***************************************************************************)
(* Matcher<Policy, Expected>::matches and the policies that hold           *)
(* sub-matchers.  path names the position of a matcher in the expression   *)
(* being evaluated (<<>> the whole, <<1>> and <<2>> its sub-matchers, for  *)
(* everyItem <<i>> the call on element i); every call of a matches is      *)
(* recorded in calls with its path and its result.                         *)
(***************************************************************************)
RECURSIVE Matcher_matches(_, _, _)
RECURSIVE all_of(_, _, _, _)

Outcome(r, cs) == [exc |-> r.exc, val |-> r.val, calls |-> cs]

Is_matches(expected, act, path) ==
    Matcher_matches(expected, act, Append(path, 1))

\* Variant: the negation left out.
IsNot_matches_NoNegation(expected, act, path) ==
    Matcher_matches(expected, act, Append(path, 1))

IsNot_matches(expected, act, path) ==
    LET r == Matcher_matches(expected, act, Append(path, 1))
    IN  IF r.exc # "none" THEN r ELSE Outcome(Returns(~r.val), r.calls)

\* a || b: b is evaluated only when a returned false.
AnyOf_matches(matchers, act, path) ==
    LET ra == Matcher_matches(matchers[1], act, Append(path, 1))
    IN  IF ra.exc # "none" \/ ra.val THEN ra
        ELSE LET rb == Matcher_matches(matchers[2], act, Append(path, 2))
             IN  Outcome(rb, ra.calls \o rb.calls)

\* Variant: both sub-matchers evaluated before the results are combined.
AllOf_matches_Eager(matchers, act, path) ==
    LET ra == Matcher_matches(matchers[1], act, Append(path, 1))
    IN  IF ra.exc # "none" THEN ra
        ELSE LET rb == Matcher_matches(matchers[2], act, Append(path, 2))
             IN  IF rb.exc # "none" THEN Outcome(rb, ra.calls \o rb.calls)
                 ELSE Outcome(Returns(ra.val /\ rb.val), ra.calls \o rb.calls)

\* a && b: b is evaluated only when a returned true.
AllOf_matches(matchers, act, path) ==
    LET ra == Matcher_matches(matchers[1], act, Append(path, 1))
    IN  IF ra.exc # "none" \/ ~ra.val THEN ra
        ELSE LET rb == Matcher_matches(matchers[2], act, Append(path, 2))
             IN  Outcome(rb, ra.calls \o rb.calls)

\* std::all_of(first, last, pred): stops at the first element pred rejects.
all_of(itemMatcher, cont, i, path) ==
    IF i > Len(cont) THEN Returns(TRUE)
    ELSE LET r == Matcher_matches(itemMatcher, cont[i], Append(path, i))
         IN  IF r.exc # "none" \/ ~r.val THEN r
             ELSE LET rest == all_of(itemMatcher, cont, i + 1, path)
                  IN  Outcome(rest, r.calls \o rest.calls)

\* The Expected parameter T of a Matcher<Policy, T>: the value type for a
\* leaf matcher, the wrapped Matcher for is, operator! and everyItem, the
\* tuple of the two matchers for anyOf and allOf.
Matcher_Expected(m) ==
    CASE m[1] = "equalTo" -> m[2]
      [] m[1] \in {"startsWith", "endsWith", "matchesPattern"} -> "string"
      [] m[1] \in {"is", "not", "everyItem"} -> "Matcher"
      [] m[1] \in {"anyOf", "allOf"} -> "tuple"
      [] m[1] = "contains" -> "element"
      [] m[1] = "in" -> "collection"
      [] m[1] = "closeTo" -> "pair"

\* C::value_type of the container a matcher is applied to.
value_type(C) ==
    CASE C = "vector" -> "int"
      [] C = "collection" -> "element"

\* enable_if<is_same<typename C::value_type, T>> of the Matcher overload.
IsContaining_enable_matcher(C, T) == value_type(C) = T

\* The overload of IsContaining_::matches taking a Matcher (everyItem).  It
\* is viable only when the item matcher's Expected type is the value type
\* of the container; otherwise the call is a build error.
IsContaining_matches(itemMatcher, cont, path) ==
    IF IsContaining_enable_matcher("vector", Matcher_Expected(itemMatcher))
    THEN all_of(itemMatcher, cont, 1, path)
    ELSE Throws("no_matching_function")

\* std::find(first, last, item): the position of the first element equal to
\* item, from position i on; the end, Len(cont) + 1, when there is none.
RECURSIVE std_find(_, _, _)
std_find(cont, item, i) ==
    IF i > Len(cont) THEN Len(cont) + 1
    ELSE IF cont[i] = item THEN i
    ELSE std_find(cont, item, i + 1)

std_end(cont) == Len(cont) + 1

\* Variant: the scan starts after the first element.
IsContaining_matches_element_SkipFirst(item, cont) ==
    Returns(std_end(cont) # std_find(cont, item, 2))

\* The overload of IsContaining_::matches taking an element (contains).
IsContaining_matches_element(item, cont) ==
    Returns(std_end(cont) # std_find(cont, item, 1))

\* Variant: only the first element of the collection is looked at.
IsIn_matches_FirstOnly(cont, item) ==
    Returns(cont # <<>> /\ cont[1] = item)

IsIn_matches(cont, item) ==
    Returns(std_end(cont) # std_find(cont, item, 1))

(***************************************************************************)
(* float arithmetic on integer-valued floats: the exact result, rounded to *)
(* the nearest float, ties to the even mantissa.                           *)
(***************************************************************************)
Abs(n) == IF n < 0 THEN -n ELSE n

\* The distance between neighbouring floats at magnitude n.
RECURSIVE float_ulp(_, _)
float_ulp(n, u) == IF n < FloatExactLimit * u THEN u ELSE float_ulp(n, 2 * u)

float_round(n) ==
    LET u == float_ulp(Abs(n), 1)
        q == Abs(n) \div u
        r == Abs(n) % u
        up == 2 * r > u \/ (2 * r = u /\ q % 2 = 1)
        mag == (IF up THEN q + 1 ELSE q) * u
    IN  IF n < 0 THEN -mag ELSE mag

\* actual - value, in float.
float_sub(a, b) == float_round(a - b)

fabs(x) == Abs(x)

\* Variant: the tolerance taken as a strict bound.
IsCloseTo_matches_Strict(expected, act) ==
    Returns(fabs(float_sub(act, expected[1])) < expected[2])

IsCloseTo_matches(expected, act) ==
    LET value == expected[1]
        delta == expected[2]
    IN  Returns(fabs(float_sub(act, value)) <= delta)

Matcher_matches(m, act, path) ==
    LET r == CASE m[1] = "equalTo" -> IsEqual_matches(m[2], m[3], act)
               [] m[1] = "startsWith" -> StringStartsWith_matches(m[2], act)
               [] m[1] = "endsWith" -> StringEndsWith_matches(m[2], act)
               [] m[1] = "matchesPattern" -> MatchesPattern_matches(m[2], act)
               [] m[1] = "is" -> Is_matches(m[2], act, path)
               [] m[1] = "not" -> IsNot_matches(m[2], act, path)
               [] m[1] = "anyOf" -> AnyOf_matches(<<m[2], m[3]>>, act, path)
               [] m[1] = "allOf" -> AllOf_matches(<<m[2], m[3]>>, act, path)
               [] m[1] = "everyItem" -> IsContaining_matches(m[2], act, path)
               [] m[1] = "contains" -> IsContaining_matches_element(m[2], act)
               [] m[1] = "in" -> IsIn_matches(m[2], act)
               [] m[1] = "closeTo" -> IsCloseTo_matches(<<m[2], m[3]>>, act)
    IN  Outcome(r, <<[path |-> path, exc |-> r.exc, val |-> r.val]>> \o r.calls)

\* operator<<(ostream, matcher): Matcher::describe, by policy.
RECURSIVE Matcher_describe(_)
Matcher_describe(m) ==
    CASE m[1] = "equalTo" -> IsEqual_describe(m[2], m[3])
      [] m[1] = "startsWith" -> StringStartsWith_describe(m[2])
      [] m[1] = "endsWith" -> StringEndsWith_describe(m[2])
      [] m[1] = "matchesPattern" -> MatchesPattern_describe(m[2])
      [] m[1] = "is" -> "is " \o Matcher_describe(m[2])
      [] m[1] = "not" -> "not " \o Matcher_describe(m[2])
      [] m[1] = "anyOf" ->
            "any of " \o Matcher_describe(m[2]) \o " or " \o Matcher_describe(m[3])
      [] m[1] = "allOf" ->
            "all of " \o Matcher_describe(m[2]) \o " and " \o Matcher_describe(m[3])
      [] m[1] = "everyItem" -> "contains " \o Matcher_describe(m[2])

\* The type of actual value a matcher expression is applied to.
RECURSIVE ActualType(_)
ActualType(m) ==
    CASE m[1] = "equalTo" -> m[2]
      [] m[1] \in {"startsWith", "endsWith", "matchesPattern"} -> "string"
      [] m[1] = "everyItem" -> "vector"
      [] m[1] = "contains" -> "collection"
      [] m[1] = "in" -> "element"
      [] m[1] = "closeTo" -> "float"
      [] OTHER -> ActualType(m[2])

(***************************************************************************)
(* Output policies: print(expected, actual, assertion).  A result is       *)
(* [exc, val, msg, out]: the exception thrown, the value returned ("void"  *)
(* for none), the message the exception or the AssertionResult carries,    *)
(* and what was written to std::cout.                                      *)
(***************************************************************************)
Endl == "\n"

\* Variant: the line written whatever the outcome.
StandardOutputPolicy_print_Always(expected, act, assertion) ==
    [exc |-> "none", val |-> assertion, msg |-> "",
     out |-> "Expected: " \o expected \o "\n but got: " \o act \o Endl]

StandardOutputPolicy_print(expected, act, assertion) ==
    IF ~assertion
    THEN [exc |-> "none", val |-> FALSE, msg |-> "",
          out |-> "Expected: " \o expected \o "\n but got: " \o act \o Endl]
    ELSE [exc |-> "none", val |-> TRUE, msg |-> "", out |-> ""]

\* Variant: the failure never raised.
ExceptionOutputPolicy_print_Never(expected, act, assertion) ==
    [exc |-> "none", val |-> "void", msg |-> "", out |-> ""]

ExceptionOutputPolicy_print(expected, act, assertion) ==
    IF ~assertion
    THEN [exc |-> "logic_error", val |-> "void",
          msg |-> "Expected: " \o expected \o "\n but got: " \o act \o Endl,
          out |-> ""]
    ELSE [exc |-> "none", val |-> "void", msg |-> "", out |-> ""]

\* The AssertionResult: val is its success flag, msg its failure message.
GTestOutputPolicy_print(expected, act, assertion) ==
    IF ~assertion
    THEN [exc |-> "none", val |-> FALSE,
          msg |-> "Expected: " \o expected \o "\n but got: " \o act, out |-> ""]
    ELSE [exc |-> "none", val |-> TRUE, msg |-> "", out |-> ""]

OutputPolicies == {"StandardOutputPolicy", "ExceptionOutputPolicy", "GTestOutputPolicy"}

OutputPolicy_print(p, expected, act, assertion) ==
    CASE p = "StandardOutputPolicy" -> StandardOutputPolicy_print(expected, act, assertion)
      [] p = "ExceptionOutputPolicy" -> ExceptionOutputPolicy_print(expected, act, assertion)
      [] p = "GTestOutputPolicy" -> GTestOutputPolicy_print(expected, act, assertion)

\* assertResult(_, _, actual, matcher): render both operands, evaluate
\* matches, hand the three to print.  An exception leaving matches leaves
\* assertResult: print is not reached.
assertResult(p, act, m) ==
    LET sactual == Render(ActualType(m), act)
        smatcher == Matcher_describe(m)
        r == Matcher_matches(m, act, <<>>)
    IN  IF r.exc # "none"
        THEN [res |-> [exc |-> r.exc, val |-> "void", msg |-> "", out |-> ""],
              calls |-> r.calls, printCalls |-> <<>>]
        ELSE [res |-> OutputPolicy_print(p, smatcher, sactual, r.val),
              calls |-> r.calls,
              printCalls |-> <<[expected |-> smatcher, actual |-> sactual,
                                assertion |-> r.val]>>]

(***************************************************************************)
(* Factory functions, and the matcher expressions the model builds.        *)
(***************************************************************************)
equalTo(T, value) == <<"equalTo", T, value>>
startsWith(val) == <<"startsWith", val>>
endsWith(val) == <<"endsWith", val>>
is(value) == <<"is", value>>
operator_not(value) == <<"not", value>>
anyOf(ma, mb) == <<"anyOf", ma, mb>>
allOf(ma, mb) == <<"allOf", ma, mb>>
everyItem(itemMatcher) == <<"everyItem", itemMatcher>>
contains(value) == <<"contains", value>>
in(cont) == <<"in", cont>>
closeTo(operand, error) == <<"closeTo", operand, error>>

\* One more level of combinators over the matchers of S.
Combine(S) ==
    S \cup {is(m) : m \in S} \cup {operator_not(m) : m \in S}
      \cup {anyOf(a, b) : a \in S, b \in S} \cup {allOf(a, b) : a \in S, b \in S}

IntLeaves == {equalTo("int", v) : v \in IntVals}

IntMatchers == Combine(Combine(IntLeaves))

TextLeaves(S) ==
    {startsWith(s) : s \in S} \cup {endsWith(s) : s \in S}
      \cup {equalTo("string", s) : s \in S} \cup {matchesPattern(p) : p \in Patterns}

StringMatchers ==
    TextLeaves(Texts) \cup {is(m) : m \in TextLeaves(Texts)}
      \cup {operator_not(m) : m \in TextLeaves(Texts)}
      \cup Combine(TextLeaves(ShortTexts))

StructMatchers ==
    {equalTo(T, v) : T \in {"KeyedPod", "PlainPod"}, v \in PodVals}
      \cup {equalTo("Opaque", v) : v \in OpaqueVals}

VectorMatchers == {everyItem(m) : m \in Combine(IntLeaves)}

MembershipMatchers ==
    {contains(x) : x \in ElemVals} \cup {in(c) : c \in Collections}

ToleranceMatchers == {closeTo(v, d) : v \in FloatVals, d \in FloatVals}

(***************************************************************************)
(* The program: a matcher is built by the factories, applied to an actual  *)
(* value by matches or by assertResult, and dropped.  The output policy is *)
(* chosen once, when the program is built (MATCHA_OUTPUT_POLICY).          *)
(***************************************************************************)
NoResult == [exc |-> "none", val |-> "void", msg |-> ""]

Init ==
    /\ policy \in OutputPolicies
    /\ pc = "idle"
    /\ op = "none"
    /\ matcher = <<>>
    /\ actual = <<>>
    /\ ret = NoResult
    /\ calls = <<>>
    /\ viable = {}
    /\ printCalls = <<>>
    /\ out = ""

Build(m) ==
    /\ pc = "idle"
    /\ pc' = "built"
    /\ matcher' = m
    /\ UNCHANGED <<policy, op, actual, ret, calls, viable, printCalls, out>>

\* The overloads overload resolution finds for the call this expression makes.
ViableFor(m) == IF m[1] = "equalTo" THEN IsEqual_overloads(m[2]) ELSE {}

\* matcher.matches(actual)
Matches(act) ==
    /\ pc = "built"
    /\ LET r == Matcher_matches(matcher, act, <<>>)
       IN  /\ ret' = [exc |-> r.exc, val |-> r.val, msg |-> ""]
           /\ calls' = r.calls
    /\ pc' = "done"
    /\ op' = "matches"
    /\ actual' = act
    /\ viable' = ViableFor(matcher)
    /\ UNCHANGED <<policy, matcher, printCalls, out>>

\* assertThat(actual, matcher), for the actual values whose rendering
\* (sactual << actual) is modelled.
AssertResult(act) ==
    /\ pc = "built"
    /\ ActualType(matcher) \in Types
    /\ LET r == assertResult(policy, act, matcher)
       IN  /\ ret' = [exc |-> r.res.exc, val |-> r.res.val, msg |-> r.res.msg]
           /\ out' = out \o r.res.out
           /\ calls' = r.calls
           /\ printCalls' = r.printCalls
    /\ pc' = "done"
    /\ op' = "assertResult"
    /\ actual' = act
    /\ viable' = ViableFor(matcher)
    /\ UNCHANGED <<policy, matcher>>

\* The matcher, a temporary, is gone; the next statement starts afresh.
Drop ==
    /\ pc = "done"
    /\ pc' = "idle"
    /\ op' = "none"
    /\ matcher' = <<>>
    /\ actual' = <<>>
    /\ ret' = NoResult
    /\ calls' = <<>>
    /\ viable' = {}
    /\ printCalls' = <<>>
    /\ out' = ""
    /\ UNCHANGED policy

Next ==
    \/ \E m \in IntMatchers : Build(m)
    \/ \E m \in StringMatchers : Build(m)
    \/ \E m \in StructMatchers : Build(m)
    \/ \E m \in VectorMatchers : Build(m)
    \/ \E m \in MembershipMatchers : Build(m)
    \/ \E m \in ToleranceMatchers : Build(m)
    \/ pc = "built" /\ \E act \in ValuesOf(ActualType(matcher)) : Matches(act)
    \/ pc = "built" /\ \E act \in ValuesOf(ActualType(matcher)) : AssertResult(act)
    \/ Drop

Spec == Init /\ [][Next]_vars

(***************************************************************************)
(* Properties.                                                             *)
(***************************************************************************)
\* The result of matches on a sub-matcher, taken on its own.
Sub(m, act) == Matcher_matches(m, act, <<>>)

\* The recorded calls made at position p of the expression.
CallsAt(p) == {i \in 1..Len(calls) : calls[i].path = p}

DiagnosticText(expected, act) == "Expected: " \o expected \o "\n but got: " \o act

\* C1: endsWith(s).matches(a) returns without raising; it returns false when
\* s is longer than a, and otherwise true iff the last len(s) characters of
\* a equal s.
C1_EndsWithNeverRaises ==
    (pc = "done" /\ op = "matches" /\ matcher[1] = "endsWith") =>
        LET s == matcher[2]
            a == actual
        IN  /\ ret.exc = "none"
            /\ Len(s) > Len(a) => ret.val = FALSE
            /\ Len(s) <= Len(a) =>
                  ret.val = (SubSeq(a, Len(a) - Len(s) + 1, Len(a)) = s)

\* C2 as claimed: evaluating allOf(A, B) or anyOf(A, B) on an actual value
\* always invokes both A.matches and B.matches.
C2_BothAlwaysEvaluated ==
    (pc = "done" /\ matcher[1] \in {"allOf", "anyOf"}) =>
        CallsAt(<<1>>) # {} /\ CallsAt(<<2>>) # {}

\* C2 as amended: A.matches is always invoked, once; B.matches is invoked
\* (once) exactly when A returned without deciding the result: true for
\* allOf, false for anyOf.
C2_ShortCircuit ==
    (pc = "done" /\ matcher[1] \in {"allOf", "anyOf"}) =>
        /\ Cardinality(CallsAt(<<1>>)) = 1
        /\ Cardinality(CallsAt(<<2>>)) <= 1
        /\ LET a == calls[CHOOSE i \in CallsAt(<<1>>) : TRUE]
           IN  CallsAt(<<2>>) # {} <=>
                  (a.exc = "none" /\ a.val = (matcher[1] = "allOf"))

\* A disjunction decided by its first sub-matcher: the second was skipped.
C2_Witness ==
    /\ pc = "done"
    /\ matcher[1] = "anyOf"
    /\ ret.exc = "none"
    /\ CallsAt(<<1>>) # {}
    /\ CallsAt(<<2>>) = {}

\* C3: on a failed match every output policy produces exactly the text
\* "Expected: " + expected + "\n but got: " + actual, nothing appended: as
\* the line written to std::cout (StandardOutputPolicy), as the exception's
\* message (ExceptionOutputPolicy), as the AssertionResult's message
\* (GTestOutputPolicy).
C3_SameDiagnosticText ==
    (pc = "done" /\ op = "assertResult" /\ printCalls # <<>>
        /\ ~printCalls[1].assertion) =>
        LET text == DiagnosticText(printCalls[1].expected, printCalls[1].actual)
        IN  IF policy = "StandardOutputPolicy" THEN out = text \o Endl
            ELSE ret.msg = text

\* C4: whenever the sub-matchers return, allOf is their conjunction, anyOf
\* their disjunction, !A the negation of A, !!A is A and is(A) is A; the
\* sub-matchers may themselves be combinators.
C4_CombinatorAlgebra ==
    (pc = "done" /\ op = "matches"
        /\ matcher[1] \in {"allOf", "anyOf", "not", "is"}) =>
        LET a == Sub(matcher[2], actual)
        IN  /\ matcher[1] \in {"allOf", "anyOf"} =>
                  LET b == Sub(matcher[3], actual)
                  IN  (a.exc = "none" /\ b.exc = "none") =>
                        /\ ret.exc = "none"
                        /\ matcher[1] = "allOf" => ret.val = (a.val /\ b.val)
                        /\ matcher[1] = "anyOf" => ret.val = (a.val \/ b.val)
            /\ (matcher[1] = "not" /\ a.exc = "none") =>
                  ret.exc = "none" /\ ret.val = ~a.val
            /\ (matcher[1] = "is" /\ a.exc = "none") =>
                  ret.exc = "none" /\ ret.val = a.val
            /\ (matcher[1] = "not" /\ matcher[2][1] = "not") =>
                  LET inner == Sub(matcher[2][2], actual)
                  IN  inner.exc = "none" => ret.val = inner.val

\* A double negation that matched, as its operand does.
C4_Witness ==
    /\ pc = "done"
    /\ op = "matches"
    /\ matcher[1] = "not"
    /\ matcher[2][1] = "not"
    /\ Sub(matcher[2][2], actual).val = TRUE
    /\ ret.exc = "none"
    /\ ret.val = TRUE

\* C5: when matches returns an outcome, assertResult hands print, exactly
\* once, the matcher's description, the rendered actual value and that
\* outcome, on success as on failure; under StandardOutputPolicy it returns
\* the outcome and writes the diagnostic line only when the outcome is
\* false: assertThat(1, equalTo(1)) is silent and true, assertThat(0,
\* equalTo(1)) writes "Expected: 1\n but got: 0" as a line and is false.
C5_AssertResult ==
    (pc = "done" /\ op = "assertResult") =>
        LET r == Sub(matcher, actual)
            e == Matcher_describe(matcher)
            a == Render(ActualType(matcher), actual)
        IN  r.exc = "none" =>
              /\ printCalls = <<[expected |-> e, actual |-> a, assertion |-> r.val]>>
              /\ policy = "StandardOutputPolicy" =>
                    /\ ret.exc = "none"
                    /\ ret.val = r.val
                    /\ out = (IF r.val THEN "" ELSE DiagnosticText(e, a) \o "\n")
                    /\ (matcher = equalTo("int", 1) /\ actual = 1) =>
                          ret.val = TRUE /\ out = ""
                    /\ (matcher = equalTo("int", 1) /\ actual = 0) =>
                          ret.val = FALSE /\ out = "Expected: 1\n but got: 0\n"

\* assertThat(0, equalTo(1)) under StandardOutputPolicy.
C5_Witness ==
    /\ pc = "done"
    /\ op = "assertResult"
    /\ policy = "StandardOutputPolicy"
    /\ matcher = equalTo("int", 1)
    /\ actual = 0
    /\ ret.exc = "none"
    /\ ret.val = FALSE
    /\ Len(printCalls) = 1

\* C6: under ExceptionOutputPolicy assertResult raises the failure
\* (std::logic_error) iff matches returned false; the failure reaches the
\* caller and its message is the diagnostic text, ended by the end of line;
\* on a match assertResult returns normally; nothing is written either way.
C6_RaiseOnFailure ==
    (pc = "done" /\ op = "assertResult" /\ policy = "ExceptionOutputPolicy") =>
        LET r == Sub(matcher, actual)
            e == Matcher_describe(matcher)
            a == Render(ActualType(matcher), actual)
        IN  /\ ret.exc = "logic_error" <=> (r.exc = "none" /\ ~r.val)
            /\ ret.exc = "logic_error" => ret.msg = DiagnosticText(e, a) \o "\n"
            /\ (r.exc = "none" /\ r.val) => (ret.exc = "none" /\ ret.msg = "")
            /\ out = ""

\* A failed assertion on a text, raised to the caller.
C6_Witness ==
    /\ pc = "done"
    /\ op = "assertResult"
    /\ policy = "ExceptionOutputPolicy"
    /\ matcher[1] = "startsWith"
    /\ ret.exc = "logic_error"
    /\ ret.msg # ""

\* C7 as claimed: an invalid pattern is rejected when the pattern matcher is
\* built, so every pattern matcher that exists holds a valid pattern.
C7_RejectedAtConstruction ==
    (pc \in {"built", "done"} /\ matcher[1] = "matchesPattern") =>
        regex_valid(matcher[2])

\* C7 as amended: the factory accepts any text; for an invalid pattern every
\* matches and every assertResult on the pattern matcher ends with the
\* pattern engine's error (never true or false), which reaches the caller:
\* print is not called and nothing is written.  A valid pattern never
\* raises that error.
C7_RejectedAtFirstUse ==
    (pc = "done" /\ matcher[1] = "matchesPattern") =>
        /\ ~regex_valid(matcher[2]) =>
              ret.exc = "regex_error" /\ printCalls = <<>> /\ out = ""
        /\ regex_valid(matcher[2]) => ret.exc # "regex_error"

\* assertResult on a matcher built from an invalid pattern.
C7_Witness ==
    /\ pc = "done"
    /\ op = "assertResult"
    /\ matcher[1] = "matchesPattern"
    /\ ~regex_valid(matcher[2])
    /\ ret.exc = "regex_error"

\* C8: at most one overload of IsEqual_::matches is viable for a type.  With
\* == it is the == overload and the result is x == y (so x matches itself,
\* and y does not match when x != y); without == but POD it is the memcmp
\* overload and the result is equality of all sizeof(T) bytes; with neither
\* there is none and the call does not build.
C8_EqualityDispatch ==
    (pc = "done" /\ op = "matches" /\ matcher[1] = "equalTo") =>
        LET T == matcher[2]
            x == matcher[3]
            y == actual
        IN  /\ Cardinality(viable) <= 1
            /\ is_equality_comparable(T) =>
                  /\ viable = {"operator=="}
                  /\ ret.exc = "none"
                  /\ ret.val = EqOp(T, x, y)
                  /\ x = y => ret.val = TRUE
                  /\ ~EqOp(T, x, y) => ret.val = FALSE
            /\ (~is_equality_comparable(T) /\ is_pod(T)) =>
                  /\ viable = {"memcmp"}
                  /\ ret.exc = "none"
                  /\ ret.val = (\A i \in 1..sizeof(x) : x[i] = y[i])
            /\ (~is_equality_comparable(T) /\ ~is_pod(T)) =>
                  /\ viable = {}
                  /\ ret.exc = "no_matching_function"

\* A POD type with its own ==: two values == calls equal although their
\* bytes differ.
C8_Witness ==
    /\ pc = "done"
    /\ op = "matches"
    /\ matcher[1] = "equalTo"
    /\ matcher[2] = "KeyedPod"
    /\ matcher[3] # actual
    /\ ret.exc = "none"
    /\ ret.val = TRUE

\* C9: for every sub-matcher M and every collection c,
\* everyItem(M).matches(c) is true iff M matches every element of c: true
\* for the empty collection, true for {x, x} and false for {x, y}, y != x,
\* with M = equalTo(x).
C9_EveryItem ==
    (pc = "done" /\ op = "matches" /\ matcher[1] = "everyItem") =>
        LET M == matcher[2]
            c == actual
        IN  /\ ret.exc = "none"
            /\ ret.val = (\A i \in 1..Len(c) : Sub(M, c[i]).val)
            /\ c = <<>> => ret.val = TRUE
            /\ (M[1] = "equalTo" /\ Len(c) = 2) =>
                  /\ (c[1] = M[3] /\ c[2] = M[3]) => ret.val = TRUE
                  /\ (c[1] = M[3] /\ c[2] # M[3]) => ret.val = FALSE

\* C10: startsWith(p).matches(a) is true iff p is no longer than a and the
\* first len(p) characters of a are p; when p is longer it returns false
\* and raises nothing.
C10_StartsWith ==
    (pc = "done" /\ op = "matches" /\ matcher[1] = "startsWith") =>
        LET p == matcher[2]
            a == actual
        IN  /\ ret.exc = "none"
            /\ ret.val = (Len(p) <= Len(a) /\ SubSeq(a, 1, Len(p)) = p)

\* A prefix longer than the text it is looked for in, the text being the
\* beginning of the prefix.
C10_Witness ==
    /\ pc = "done"
    /\ op = "matches"
    /\ matcher[1] = "startsWith"
    /\ Len(matcher[2]) > Len(actual)
    /\ actual # <<>>
    /\ SubSeq(matcher[2], 1, Len(actual)) = actual
    /\ ret.exc = "none"
    /\ ret.val = FALSE

\* C11: contains(x).matches(c) is true iff some element of c equals x; it
\* is false for the empty collection, whatever x.
C11_Contains ==
    (pc = "done" /\ op = "matches" /\ matcher[1] = "contains") =>
        LET x == matcher[2]
            c == actual
        IN  /\ ret.exc = "none"
            /\ ret.val = (\E i \in 1..Len(c) : c[i] = x)
            /\ c = <<>> => ret.val = FALSE

\* x is the first element of a longer collection and occurs nowhere else
\* in it.
C11_Witness ==
    /\ pc = "done"
    /\ op = "matches"
    /\ matcher[1] = "contains"
    /\ Len(actual) >= 2
    /\ actual[1] = matcher[2]
    /\ \A i \in 2..Len(actual) : actual[i] # matcher[2]
    /\ ret.val = TRUE

\* C12: in(C).matches(x) is true iff x occurs in C, which is what
\* contains(x).matches(C) returns; in({a, b, c}) matches b and not an absent
\* d; in of the empty collection matches nothing.
C12_In ==
    (pc = "done" /\ op = "matches" /\ matcher[1] = "in") =>
        LET C == matcher[2]
            x == actual
        IN  /\ ret.exc = "none"
            /\ ret.val = (\E i \in 1..Len(C) : C[i] = x)
            /\ ret.val = Sub(contains(x), C).val
            /\ C = <<>> => ret.val = FALSE
            /\ (Len(C) = 3 /\ x = C[2]) => ret.val = TRUE
            /\ (Len(C) = 3 /\ x # C[1] /\ x # C[2] /\ x # C[3]) => ret.val = FALSE

\* in({a, b, c}), three different elements, applied to b.
C12_Witness ==
    /\ pc = "done"
    /\ op = "matches"
    /\ matcher[1] = "in"
    /\ Len(matcher[2]) = 3
    /\ Cardinality({matcher[2][i] : i \in 1..3}) = 3
    /\ actual = matcher[2][2]
    /\ ret.val = TRUE

\* C13 as claimed: closeTo(v, d).matches(a) is true iff |a - v| <= d, the
\* difference taken exactly.
C13_ExactTolerance ==
    (pc = "done" /\ op = "matches" /\ matcher[1] = "closeTo") =>
        LET v == matcher[2]
            d == matcher[3]
            a == actual
        IN  ret.val = (Abs(a - v) <= d)

\* C13 as amended: closeTo(v, d).matches(a) is true iff the difference a - v
\* as computed in the floating-point type, that is rounded to the nearest
\* value of the type, is at most d in magnitude.  Whenever a - v is a value
\* of the type this is |a - v| <= d: the boundary values a = v + d and
\* a = v - d match, and a negative d matches no value.
C13_RoundedTolerance ==
    (pc = "done" /\ op = "matches" /\ matcher[1] = "closeTo") =>
        LET v == matcher[2]
            d == matcher[3]
            a == actual
        IN  /\ ret.exc = "none"
            /\ ret.val = (Abs(float_round(a - v)) <= d)
            /\ float_round(a - v) = a - v => ret.val = (Abs(a - v) <= d)
            /\ (d >= 0 /\ (a = v + d \/ a = v - d)) => ret.val = TRUE
            /\ d < 0 => ret.val = FALSE

\* A boundary value, a = v + d with d > 0, matched.
C13_Witness ==
    /\ pc = "done"
    /\ op = "matches"
    /\ matcher[1] = "closeTo"
    /\ matcher[3] > 0
    /\ actual = matcher[2] + matcher[3]
    /\ ret.val = TRUE

============================================================================
